---- MODULE Spec2Model ----
(***************************************************************************)
(* Model of bin/ssPrep.py: splice-site correction of BED12 reads against   *)
(* a table of annotated splice sites.                                      *)
(*                                                                         *)
(* State: the site table ssData (coordinate -> SS object), the interval    *)
(* tree of annotated windows, the two run options, and the read that the   *)
(* loop of correctReads handled last together with the record it printed.  *)
(* One step of Spec is one iteration of the loop of correctReads.          *)
(* SpecRT applies the two coordinate conversions to bounded inputs.        *)
(***************************************************************************)
EXTENDS Integers, Sequences, FiniteSets

\* ------------------------------------------------------------------ bounds
MaxCoord == 5
MaxWiggle == 2
MaxAnno == 1
MaxReads == 2
MaxBlocks == 3

Coords == 0..MaxCoord
Strands == {"+", "-"}
NULL == [coord |-> -1]

abs(x) == IF x < 0 THEN -x ELSE x

SetMin(S) == CHOOSE x \in S : \A y \in S : x <= y

RECURSIVE SortedSeq(_)
SortedSeq(S) ==
  IF S = {} THEN <<>> ELSE <<SetMin(S)>> \o SortedSeq(S \ {SetMin(S)})

RECURSIVE SeqMin(_)
SeqMin(s) ==
  IF Len(s) = 1 THEN s[1]
  ELSE LET m == SeqMin(Tail(s)) IN IF s[1] <= m THEN s[1] ELSE m

\* ------------------------------------------------------- class SS (l.163)
\* SS(coord, strand, ssType) with ssCorr unset; support and usage are
\* descriptive only and never read by the correction.
SS(coord, strand, ssType) ==
  [coord |-> coord, strand |-> strand, ssType |-> ssType]

\* ss.ssCorr = target: the objects are never mutated after construction, so
\* the reference is kept as the fields of the object it points to.
WithCorr(ss, target) ==
  [coord |-> ss.coord, strand |-> ss.strand, ssType |-> ss.ssType,
   ssCorr |-> [coord |-> target.coord, strand |-> target.strand,
               ssType |-> target.ssType]]

\* ------------------------------------------- coordinate conversion (l.119)
bed12toJuncs(start, sizes, starts) ==
  [num \in 1..(Len(starts) - 1) |->
     <<start + starts[num] + sizes[num], start + starts[num + 1]>>]

\* juncsToBed12 with the interior offset taken from the previous junction's
\* left coordinate.
juncsToBed12Left(start, end, coords) ==
  LET n == Len(coords) IN
  IF n > 0
  THEN [blocks |-> n + 1,
        sizes  |-> [i \in 1..(n + 1) |->
                      IF i = 1 THEN abs(start - coords[1][1])
                      ELSE IF i <= n
                           THEN coords[i][1] - ((coords[i-1][1] - start) + start)
                           ELSE end - ((coords[n][2] - start) + start)],
        starts |-> [i \in 1..(n + 1) |->
                      IF i = 1 THEN 0
                      ELSE IF i <= n THEN coords[i-1][1] - start
                           ELSE coords[n][2] - start]]
  ELSE [blocks |-> 1, sizes |-> <<end - start>>, starts |-> <<0>>]

\* juncsToBed12 (l.183)
juncsToBed12(start, end, coords) ==
  LET n == Len(coords) IN
  IF n > 0
  THEN [blocks |-> n + 1,
        sizes  |-> [i \in 1..(n + 1) |->
                      IF i = 1 THEN abs(start - coords[1][1])
                      ELSE IF i <= n
                           THEN coords[i][1] - ((coords[i-1][2] - start) + start)
                           ELSE end - ((coords[n][2] - start) + start)],
        starts |-> [i \in 1..(n + 1) |->
                      IF i = 1 THEN 0
                      ELSE coords[i-1][2] - start]]
  ELSE [blocks |-> 1, sizes |-> <<end - start>>, starts |-> <<0>>]

\* ------------------------------------------------ interval tree (external)
\* intTree.search(c,c): the windows [coord-wiggle, coord+wiggle] holding c,
\* as triples <<windowStart, windowEnd, coord>>.
search(tree, c) == {h \in tree : h[1] <= c /\ c <= h[2]}

\* --------------------------------------------------- buildIntervalTree
SiteTypes(strand) ==
  IF strand = "+" THEN <<"donor", "acceptor">> ELSE <<"acceptor", "donor">>

\* one "if c not in data" block of buildIntervalTree
addSite(st, c, strand, ssType, wiggle) ==
  IF st.data[c] = NULL
  THEN [data |-> [st.data EXCEPT ![c] =
                    WithCorr(SS(c, strand, ssType), SS(c, strand, ssType))],
        tree |-> st.tree \cup {<<c - wiggle, c + wiggle, c>>}]
  ELSE st

RECURSIVE buildFrom(_, _, _, _)
buildFrom(lines, i, wiggle, st) ==
  IF i > Len(lines) THEN st
  ELSE LET l  == lines[i]
           ty == SiteTypes(l.strand)
           s1 == addSite(st, l.c1, l.strand, ty[1], wiggle)
           s2 == addSite(s1, l.c2, l.strand, ty[2], wiggle)
       IN buildFrom(lines, i + 1, wiggle, s2)

buildIntervalTree(lines, wiggle) ==
  buildFrom(lines, 1, wiggle, [data |-> [c \in Coords |-> NULL], tree |-> {}])

\* ------------------------------------------------------------ ssCorrrect
\* ssCorrrect that settles a tie by taking the first of the closest hits.
ssCorrrectFirst(c, strand, ssType, tree, data) ==
  LET hits == search(tree, c) IN
  IF Cardinality(hits) < 1
  THEN [data EXCEPT ![c] = WithCorr(SS(c, strand, "None"), SS(c, strand, "None"))]
  ELSE LET minVal == SetMin({abs(c - h[3]) : h \in hits})
           cCorr  == SetMin({h[3] : h \in {g \in hits : abs(c - g[3]) = minVal}})
       IN [data EXCEPT ![c] = WithCorr(SS(c, strand, ssType), data[cCorr])]

ssCorrrect(c, strand, ssType, tree, data) ==
  LET hits == search(tree, c) IN
  IF Cardinality(hits) < 1
  THEN [data EXCEPT ![c] = WithCorr(SS(c, strand, "None"), SS(c, strand, "None"))]
  ELSE LET minVal  == SetMin({abs(c - h[3]) : h \in hits})
           closest == {h \in hits : abs(c - h[3]) = minVal}
       IN IF Cardinality(closest) > 1
          THEN [data EXCEPT ![c] =
                  WithCorr(SS(c, strand, "None"), SS(c, strand, "None"))]
          ELSE LET cCorr == (CHOOSE h \in closest : TRUE)[3]
               IN [data EXCEPT ![c] = WithCorr(SS(c, strand, ssType), data[cCorr])]

\* ---------------------------------------------------------- correctReads
\* "if c not in ssData: ssData = ssCorrrect(...)" without the membership test
lookupAlways(st, c, strand, ssType, tree) ==
  [data  |-> ssCorrrect(c, strand, ssType, tree, st.data),
   calls |-> [st.calls EXCEPT ![c] = @ + 1]]

\* "if c not in ssData: ssData = ssCorrrect(...)"; calls counts the calls of
\* ssCorrrect made for each coordinate.
lookup(st, c, strand, ssType, tree) ==
  IF st.data[c] = NULL
  THEN [data  |-> ssCorrrect(c, strand, ssType, tree, st.data),
        calls |-> [st.calls EXCEPT ![c] = @ + 1]]
  ELSE st

\* the type test, remembering only the junction handled last
flagNovelLast(novelSS, ssTypes) ==
  "None" \in {ssTypes[1], ssTypes[2]} \/ ssTypes[1] = ssTypes[2]

\* "if None in ssTypes or ssTypes[0] == ssTypes[1]: novelSS = True"
flagNovel(novelSS, ssTypes) ==
  IF "None" \in {ssTypes[1], ssTypes[2]} \/ ssTypes[1] = ssTypes[2]
  THEN TRUE ELSE novelSS

\* the body of "for x in juncs", from junction i on
RECURSIVE resolveJuncs(_, _, _, _, _)
resolveJuncs(juncs, i, strand, tree, acc) ==
  IF i > Len(juncs) THEN acc
  ELSE LET c1 == juncs[i][1]
           c2 == juncs[i][2]
           ty == SiteTypes(strand)
           s1 == lookup([data |-> acc.data, calls |-> acc.calls],
                        c1, strand, ty[1], tree)
           s2 == lookup(s1, c2, strand, ty[2], tree)
           c1Corr == s2.data[c1].ssCorr
           c2Corr == s2.data[c2].ssCorr
       IN resolveJuncs(juncs, i + 1, strand, tree,
            [data      |-> s2.data,
             calls     |-> s2.calls,
             newJuncs  |-> Append(acc.newJuncs, <<c1Corr.coord, c2Corr.coord>>),
             ssStrands |-> acc.ssStrands \cup {c1Corr.strand, c2Corr.strand},
             novelSS   |-> flagNovel(acc.novelSS,
                                     <<c1Corr.ssType, c2Corr.ssType>>)])

\* the correctStrand block that leaves the declared strand in place
strandStepKeep(cs, strand, ssStrands, novelSS) ==
  [strand |-> strand,
   novelSS |-> IF cs /\ Cardinality(ssStrands) > 1 THEN TRUE ELSE novelSS]

\* "if correctStrand: ..."
strandStep(cs, strand, ssStrands, novelSS) ==
  IF cs
  THEN IF Cardinality(ssStrands) > 1
       THEN [strand |-> strand, novelSS |-> TRUE]
       ELSE IF Cardinality(ssStrands) = 1
            THEN [strand |-> CHOOSE s \in ssStrands : TRUE, novelSS |-> novelSS]
            ELSE [strand |-> strand, novelSS |-> novelSS]
  ELSE [strand |-> strand, novelSS |-> novelSS]

\* "minSize = min(sizes); if minSize == 0: novelSS = True"
zeroCheck(sizes, novelSS) == IF SeqMin(sizes) = 0 THEN TRUE ELSE novelSS

\* the print that writes the read's own blocks for a flagged read
emitOriginal(read, strand, bed, novelSS) ==
  [part   |-> IF novelSS THEN "inconsistent" ELSE "corrected",
   start  |-> read.start, end |-> read.end, strand |-> strand,
   blocks |-> IF novelSS THEN read.exons ELSE bed.blocks,
   sizes  |-> IF novelSS THEN read.sizes ELSE bed.sizes,
   starts |-> IF novelSS THEN read.starts ELSE bed.starts]

\* the two print calls: the same columns, to one file or the other
emit(read, strand, bed, novelSS) ==
  [part   |-> IF novelSS THEN "inconsistent" ELSE "corrected",
   start  |-> read.start, end |-> read.end, strand |-> strand,
   blocks |-> bed.blocks, sizes |-> bed.sizes, starts |-> bed.starts]

\* one iteration of "for line in bedObj.getLine()"
processRead(read, tree, data, cnt, cs) ==
  LET juncs == bed12toJuncs(read.start, read.sizes, read.starts)
      r     == resolveJuncs(juncs, 1, read.strand, tree,
                 [data |-> data, calls |-> cnt, newJuncs |-> <<>>,
                  ssStrands |-> {}, novelSS |-> FALSE])
      bed   == juncsToBed12(read.start, read.end, r.newJuncs)
      st    == strandStep(cs, read.strand, r.ssStrands, r.novelSS)
      novel == zeroCheck(bed.sizes, st.novelSS)
  IN [data |-> r.data, calls |-> r.calls,
      out  |-> emit(read, st.strand, bed, novel)]

\* ------------------------------------------------------------- the inputs
\* BED12.getLine on a well-formed line: the blocks are the intervals
\* [p1,p2), [p3,p4), ... of an increasing sequence of points.
mkRead(p, strand) ==
  LET n == Len(p) \div 2 IN
  [start  |-> p[1], end |-> p[2 * n], strand |-> strand, exons |-> n,
   sizes  |-> [i \in 1..n |-> p[2 * i] - p[2 * i - 1]],
   starts |-> [i \in 1..n |-> p[2 * i - 1] - p[1]]]

EvenSets(lo, hi, maxPairs) ==
  {P \in SUBSET (lo..hi) :
     Cardinality(P) % 2 = 0 /\ Cardinality(P) <= 2 * maxPairs}

Reads ==
  {mkRead(SortedSeq(P), s) : P \in EvenSets(0, MaxCoord, MaxBlocks) \ {{}},
                             s \in Strands}

AnnoLines ==
  {[c1 |-> a, c2 |-> b, strand |-> s] :
     a \in Coords, b \in Coords, s \in Strands} \cap
  {l \in [c1 : Coords, c2 : Coords, strand : Strands] : l.c1 < l.c2}

AnnoFiles == UNION {[1..n -> AnnoLines] : n \in 0..MaxAnno}

VARIABLES wiggle, correctStrand, intTree, ssData, calls, lastRead, out, nReads, rt

vars == <<wiggle, correctStrand, intTree, ssData, calls, lastRead, out, nReads, rt>>

NoRead == [start |-> -1]
NoOut == [part |-> "none"]
RtIdle == [phase |-> "idle"]

\* --------------------------------------------------------------- Spec
\* main(): the options, then buildIntervalTree; no read handled yet.
Init ==
  /\ wiggle \in 0..MaxWiggle
  /\ correctStrand \in BOOLEAN
  /\ \E f \in AnnoFiles :
       LET b == buildIntervalTree(f, wiggle) IN
       /\ intTree = b.tree
       /\ ssData = b.data
  /\ calls = [c \in Coords |-> 0]
  /\ lastRead = NoRead
  /\ out = NoOut
  /\ nReads = 0
  /\ rt = RtIdle

CorrectRead ==
  /\ nReads < MaxReads
  /\ \E read \in Reads :
       LET r == processRead(read, intTree, ssData, calls, correctStrand) IN
       /\ ssData' = r.data
       /\ calls' = r.calls
       /\ out' = r.out
       /\ lastRead' = read
  /\ nReads' = nReads + 1
  /\ UNCHANGED <<wiggle, correctStrand, intTree, rt>>

Next == CorrectRead

Spec == Init /\ [][Next]_vars

\* --------------------------------------------------------------- SpecRT
\* The two conversions applied in turn to a start, an end and a list of
\* strictly increasing junction coordinates within [start, end].
InitRT ==
  /\ wiggle = 0
  /\ correctStrand = FALSE
  /\ intTree = {}
  /\ ssData = [c \in Coords |-> NULL]
  /\ calls = [c \in Coords |-> 0]
  /\ lastRead = NoRead
  /\ out = NoOut
  /\ nReads = 0
  /\ \E s \in Coords, e \in Coords :
       /\ s <= e
       /\ \E P \in EvenSets(s, e, MaxBlocks - 1) :
            LET p == SortedSeq(P) IN
            rt = [phase |-> "input", start |-> s, end |-> e,
                  J |-> [i \in 1..(Len(p) \div 2) |-> <<p[2 * i - 1], p[2 * i]>>]]

ToBlocks ==
  /\ rt.phase = "input"
  /\ rt' = [phase |-> "blocks", start |-> rt.start, end |-> rt.end, J |-> rt.J,
            bed |-> juncsToBed12(rt.start, rt.end, rt.J)]
  /\ UNCHANGED <<wiggle, correctStrand, intTree, ssData, calls, lastRead, out, nReads>>

ToJuncs ==
  /\ rt.phase = "blocks"
  /\ rt' = [phase |-> "juncs", start |-> rt.start, end |-> rt.end, J |-> rt.J,
            bed |-> rt.bed,
            back |-> bed12toJuncs(rt.start, rt.bed.sizes, rt.bed.starts)]
  /\ UNCHANGED <<wiggle, correctStrand, intTree, ssData, calls, lastRead, out, nReads>>

NextRT == ToBlocks \/ ToJuncs

SpecRT == InitRT /\ [][NextRT]_vars

\* ------------------------------------------------------------ properties
Processed == lastRead # NoRead

\* the coordinates that came from the annotation
Annotated == {h[3] : h \in intTree}

\* the junctions of the read handled last, as read from its blocks
RawJuncs == bed12toJuncs(lastRead.start, lastRead.sizes, lastRead.starts)

\* the canonical site each raw endpoint maps to in the site table
CanonSite(c) == ssData[c].ssCorr

CanonJuncs ==
  [i \in 1..Len(RawJuncs) |->
     <<CanonSite(RawJuncs[i][1]).coord, CanonSite(RawJuncs[i][2]).coord>>]

Rebuilt == juncsToBed12(lastRead.start, lastRead.end, CanonJuncs)

BadPair(i) ==
  LET t1 == CanonSite(RawJuncs[i][1]).ssType
      t2 == CanonSite(RawJuncs[i][2]).ssType
  IN t1 = "None" \/ t2 = "None" \/ t1 = t2

CanonStrands ==
  UNION {{CanonSite(RawJuncs[i][1]).strand, CanonSite(RawJuncs[i][2]).strand} :
           i \in 1..Len(RawJuncs)}

Endpoints == UNION {{RawJuncs[i][1], RawJuncs[i][2]} : i \in 1..Len(RawJuncs)}

Closest(c) ==
  LET hits == search(intTree, c) IN
  {h \in hits : \A g \in hits : abs(c - h[3]) <= abs(c - g[3])}

\* C1: converting a list J of strictly increasing junction pairs within
\* [start,end] to blocks and the blocks back to junctions gives J again; an
\* empty J gives the single block [end-start] at offset 0 and no junctions.
C1_RoundTrip ==
  rt.phase = "juncs" =>
    /\ rt.back = rt.J
    /\ rt.J = <<>> =>
         /\ rt.bed.blocks = 1
         /\ rt.bed.sizes = <<rt.end - rt.start>>
         /\ rt.bed.starts = <<0>>

C1_Witness == rt.phase = "juncs" /\ Len(rt.J) = 2 /\ rt.back = rt.J

C3_BadPairInconsistent ==
  (Processed /\ \E i \in 1..Len(RawJuncs) : BadPair(i)) =>
    out.part = "inconsistent"

C3_Witness ==
  /\ Processed
  /\ ~correctStrand
  /\ Len(RawJuncs) = 2
  /\ BadPair(1)
  /\ ~BadPair(2)
  /\ \A i \in 1..Len(Rebuilt.sizes) : Rebuilt.sizes[i] # 0
  /\ out.part = "inconsistent"

\* C4: a resolved coordinate with two or more annotated candidates at the
\* least distance has type none and is its own canonical site; it maps to an
\* annotated site only when exactly one candidate is closest.
C4_TieIsAmbiguous ==
  \A c \in Coords :
    (ssData[c] # NULL /\ c \notin Annotated) =>
      /\ Cardinality(Closest(c)) >= 2 =>
           /\ ssData[c].ssType = "None"
           /\ ssData[c].ssCorr.coord = c
           /\ ssData[c].ssCorr.ssType = "None"
      /\ ssData[c].ssCorr.coord \in Annotated =>
           /\ Cardinality(Closest(c)) = 1
           /\ ssData[c].ssCorr.coord \in {h[3] : h \in Closest(c)}

C4_Witness ==
  \E c \in Coords :
    /\ ssData[c] # NULL
    /\ c \notin Annotated
    /\ Cardinality(Closest(c)) = 2
    /\ ssData[c].ssCorr.coord = c

\* C5: a read whose rebuilt blocks hold a block of size zero is sent to the
\* inconsistent partition.
C5_ZeroInconsistent ==
  (Processed /\ \E i \in 1..Len(Rebuilt.sizes) : Rebuilt.sizes[i] = 0) =>
    out.part = "inconsistent"

C7_Memoized ==
  /\ [](\A c \in Coords : calls[c] <= 1 /\ (c \in Annotated => calls[c] = 0))
  /\ [][\A c \in Coords : ssData[c] # NULL => ssData'[c] = ssData[c]]_vars

C7_Witness ==
  /\ nReads = 2
  /\ \E c \in Endpoints :
       /\ calls[c] = 1
       /\ ssData[c].strand # lastRead.strand

\* C8: a read printed to the corrected partition has blocks whose junctions
\* are the canonical coordinates of its raw junctions, pair by pair.
C8_CorrectedIsCanonical ==
  (Processed /\ out.part = "corrected") =>
    bed12toJuncs(out.start, out.sizes, out.starts) = CanonJuncs

\* C9: with strand correction on, a read none of whose endpoints maps to an
\* annotated site is printed with its declared strand.
C9_NovelKeepsStrand ==
  (Processed /\ correctStrand
     /\ \A c \in Endpoints : CanonSite(c).coord \notin Annotated) =>
    out.strand = lastRead.strand

\* C10: every record printed to the corrected partition has block sizes
\* that are all greater than zero.
C10_CorrectedPositive ==
  (Processed /\ out.part = "corrected") =>
    \A i \in 1..Len(out.sizes) : out.sizes[i] > 0

====
